---- MODULE Spec2Model ----
(***************************************************************************)
(* State-machine model of the WebGL fluid background of class_display:     *)
(* static/js/fluid.js (initFluid and the handle it returns), and of the    *)
(* countdown of the display client that drives the themes' window hooks.   *)
(*                                                                         *)
(* Conventions.  Field values, colours, coordinates, radii and forces are  *)
(* fixed-point integers in thousandths (0.04 is 40, 0.995 is 995).  Times  *)
(* are integer milliseconds (0.032 s is 32).  Pixel ratios are in halves   *)
(* (1.5 is 3), with 0 for an absent / falsy value.  An optional argument   *)
(* is a sequence: <<>> when omitted (null / undefined), <<v>> when given.  *)
(* A texture or framebuffer is an opaque handle <<kind, serial>>.          *)
(***************************************************************************)
EXTENDS Integers, Sequences, FiniteSets, TLC

\* Number of handle calls and frame callbacks explored after initFluid.
MaxCalls == 2

VARIABLES
    pc,               \* "start" | "live" (initFluid returned sim) | "failed" (it threw)
    glContext,        \* what canvas.getContext('webgl2') returned: "none" before the call
    thrown,           \* message of the Error initFluid threw, "none" otherwise
    canvasAttached,   \* canvas.parentNode is the container
    extensions,       \* extensions the context grants (results of gl.getExtension)
    devicePixelRatio, \* window.devicePixelRatio read by initFluid (halves)
    optsMaxDPR,       \* opts.maxDPR passed to initFluid (halves, 0 = absent)
    dpr,              \* const dpr of initFluid (halves)
    layout,           \* <<clientWidth, clientHeight>> the container gives the canvas
    surfaceVisible,   \* the hosting surface is visible
    width, height,    \* let width, height
    texel,            \* Float32Array texel, as the denominators <<1/texel[0], 1/texel[1]>>, 0 for 0.0
    dye, velocity, pressure, \* double FBOs: [read |-> fbo1, write |-> fbo2]
    divergence,       \* single FBO
    fbAttach,         \* framebuffer handle -> texture attached as COLOR_ATTACHMENT0
    texData,          \* texture handle -> contents (grid of cells)
    nextId,           \* serial of the next GL object
    lastT,            \* let lastT (ms)
    clock,            \* latest performance.now() reading (ms)
    rafPending,       \* number of callbacks queued by requestAnimationFrame
    destroyed,        \* sim.destroy() has been called
    lastOp,           \* the handler that ran last
    lastArgs,         \* its arguments / inputs
    gpuLog,           \* trace of the handler that ran last: GL commands, role swaps,
                      \* allocations and requestAnimationFrame calls, in program order
    calls,            \* handlers run since initFluid
    state,            \* display client: let state = { remaining, status, _finaleDone }
    tickStarted,      \* display client: window.__tickStarted
    hookCalls,        \* calls the display client has made to window.onNumberChange
                      \* and window.onFinaleBurst
    countdown,        \* what the countdown did: one-second changes of the remaining
                      \* time while running, sessions that reached zero
    pollingStarted,   \* display client: let __pollingStarted
    timers,           \* display client: setInterval timers created so far (poll: the
                      \* 10-second fetchNow, tick: the 1-second countdown), and
                      \* whether an EventSource is open (sse)
    theme             \* fluid theme wrapper: its closure (sim, totalSeconds, lastX,
                      \* lastY), the hooks and listeners it has installed, the calls
                      \* its last handler made on sim, and whether an exception has
                      \* left one of its functions

fluidVars == <<pc, glContext, thrown, canvasAttached, extensions, devicePixelRatio, optsMaxDPR,
               dpr, layout, surfaceVisible, width, height, texel, dye, velocity, pressure,
               divergence, fbAttach, texData, nextId, lastT, clock, rafPending,
               destroyed, lastOp, lastArgs, gpuLog, calls>>

displayVars == <<state, tickStarted, hookCalls, countdown, pollingStarted, timers>>

themeVars == <<theme>>

vars == <<fluidVars, displayVars, themeVars>>

gpuVars == <<width, height, texel, dye, velocity, pressure, divergence,
             fbAttach, texData, nextId>>

envVars == <<extensions, devicePixelRatio, optsMaxDPR, dpr>>

----------------------------------------------------------------------------
(* Small helpers *)

Min(a, b) == IF a < b THEN a ELSE b
Max(a, b) == IF a > b THEN a ELSE b
Clamp(v, lo, hi) == IF v < lo THEN lo ELSE IF v > hi THEN hi ELSE v

NoFBO == [tex |-> <<"none", 0>>, fbo |-> <<"none", 0>>, w |-> 0, h |-> 0]
NoDouble == [read |-> NoFBO, write |-> NoFBO]
Screen == <<"screen", 0>>    \* the default framebuffer (bindFramebuffer(null))

\* The function f as an explicit table of its values.
Tabulate(f) == f @@ <<>>

Cells(w, h) == (0 .. w - 1) \X (0 .. h - 1)
ZeroGrid(w, h, ch) ==
    Tabulate([p \in Cells(w, h) |-> Tabulate([c \in 1 .. ch |-> 0])])
IsZero(grid) == \A p \in DOMAIN grid : \A c \in DOMAIN grid[p] : grid[p][c] = 0

----------------------------------------------------------------------------
(* createFBO / createDoubleFBO *)

\* createFBO: a texture of w x h texels (texImage2D with null data: all zero) and
\* a framebuffer whose colour attachment is that texture.
createFBO(k, w, h) ==
    [tex |-> <<"tex", k>>, fbo |-> <<"fbo", k>>, w |-> w, h |-> h]

\* A double FBO whose second buffer keeps the size the fields had before.
createDoubleFBOStale(k, w, h) ==
    [read |-> createFBO(k, w, h), write |-> createFBO(k + 1, width, height)]

\* createDoubleFBO: fbo1 behind the read getter, fbo2 behind the write getter.
createDoubleFBO(k, w, h) ==
    [read |-> createFBO(k, w, h), write |-> createFBO(k + 1, w, h)]

\* A swap() that exchanges the framebuffers and forgets the textures.
swapFboOnly(d) ==
    [read  |-> [d.read  EXCEPT !.fbo = d.write.fbo],
     write |-> [d.write EXCEPT !.fbo = d.read.fbo]]

\* A swap() that exchanges the textures and forgets the framebuffers.
swapTexOnly(d) ==
    [read  |-> [d.read  EXCEPT !.tex = d.write.tex],
     write |-> [d.write EXCEPT !.tex = d.read.tex]]

\* swap(): exchanges the tex and the fbo members of fbo1 and fbo2.
swap(d) ==
    [read  |-> [d.read  EXCEPT !.tex = d.write.tex, !.fbo = d.write.fbo],
     write |-> [d.write EXCEPT !.tex = d.read.tex,  !.fbo = d.read.fbo]]

----------------------------------------------------------------------------
(* The fragment shaders, on grids of fixed-point cells.  Cell (i, j) has its *)
(* centre at vUv = ((i + 1/2) / w, (j + 1/2) / h); a lookup one uTexel away  *)
(* is the neighbouring cell, clamped to the edge (CLAMP_TO_EDGE).            *)

Fetch(grid, w, h, i, j) == grid[<<Clamp(i, 0, w - 1), Clamp(j, 0, h - 1)>>]

Lerp(a, b, f) == (a * (1000 - f) + b * f) \div 1000

\* texture() with LINEAR filtering at (um, vm), thousandths of a cell from the
\* centre of cell (0, 0).
Bilinear(grid, w, h, um, vm) ==
    LET i0 == um \div 1000
        j0 == vm \div 1000
        fx == um % 1000
        fy == vm % 1000
        c00 == Fetch(grid, w, h, i0, j0)
        c10 == Fetch(grid, w, h, i0 + 1, j0)
        c01 == Fetch(grid, w, h, i0, j0 + 1)
        c11 == Fetch(grid, w, h, i0 + 1, j0 + 1)
    IN  Tabulate([c \in DOMAIN c00 |->
            Lerp(Lerp(c00[c], c10[c], fx), Lerp(c01[c], c11[c], fx), fy)])

\* advectFrag: coord = vUv - uDt * v * uTexel; o = texture(uSrc, coord).
\* dt in ms, v in thousandths of a texel per second.
advectFrag(src, vel, w, h, dt) ==
    [p \in Cells(w, h) |->
        LET v == vel[p]
        IN  Bilinear(src, w, h,
                     p[1] * 1000 - ((dt * v[1]) \div 1000),
                     p[2] * 1000 - ((dt * v[2]) \div 1000))]

\* clearFrag: o = c * uDissipation.
clearFrag(src, diss) ==
    [p \in DOMAIN src |->
        Tabulate([c \in DOMAIN src[p] |-> (src[p][c] * diss) \div 1000])]

\* divergenceFrag: div = 0.5 * ((R - L) + (T - B)).
divergenceFrag(vel, w, h) ==
    [p \in Cells(w, h) |->
        LET L == Fetch(vel, w, h, p[1] - 1, p[2])[1]
            R == Fetch(vel, w, h, p[1] + 1, p[2])[1]
            B == Fetch(vel, w, h, p[1], p[2] - 1)[2]
            T == Fetch(vel, w, h, p[1], p[2] + 1)[2]
        IN  <<((R - L) + (T - B)) \div 2>>]

\* pressureFrag: p = (L + R + B + T - div) * 0.25.
pressureFrag(pr, div, w, h) ==
    [p \in Cells(w, h) |->
        LET L == Fetch(pr, w, h, p[1] - 1, p[2])[1]
            R == Fetch(pr, w, h, p[1] + 1, p[2])[1]
            B == Fetch(pr, w, h, p[1], p[2] - 1)[1]
            T == Fetch(pr, w, h, p[1], p[2] + 1)[1]
        IN  <<(L + R + B + T - div[p][1]) \div 4>>]

\* gradientSubtractFrag: v = texture(uVel, vUv).xy - vec2(R - L, T - B) * 0.5.
gradientSubtractFrag(vel, pr, w, h) ==
    [p \in Cells(w, h) |->
        LET L == Fetch(pr, w, h, p[1] - 1, p[2])[1]
            R == Fetch(pr, w, h, p[1] + 1, p[2])[1]
            B == Fetch(pr, w, h, p[1], p[2] - 1)[1]
            T == Fetch(pr, w, h, p[1], p[2] + 1)[1]
        IN  <<vel[p][1] - ((R - L) \div 2), vel[p][2] - ((T - B) \div 2)>>]

\* exp(-num / den) in thousandths, tabulated in steps of a quarter.
ExpNeg(num, den) ==
    LET tab == <<1000, 779, 607, 472, 368, 287, 223, 174, 135, 105, 82, 64, 50, 39,
                 30, 24, 18, 14, 11, 9, 7, 5, 4, 3, 2, 2, 2, 1>>
        q == (4 * num) \div den
    IN  IF q < Len(tab) THEN tab[q + 1] ELSE 0

\* a = exp(-(d * d) / max(1e-6, uRadius * uRadius)), d = distance(vUv, uPoint).
Falloff(p, w, h, point, radius) ==
    LET dx == (((2 * p[1] + 1) * 1000) \div (2 * w)) - point[1]
        dy == (((2 * p[2] + 1) * 1000) \div (2 * h)) - point[2]
    IN  ExpNeg(dx * dx + dy * dy, Max(1, radius * radius))

\* splatFrag: o = base + vec4(uColor * a, a).
splatFrag(base, w, h, point, color, radius) ==
    [p \in Cells(w, h) |->
        LET a == Falloff(p, w, h, point, radius)
            b == base[p]
        IN  <<b[1] + ((color[1] * a) \div 1000), b[2] + ((color[2] * a) \div 1000),
              b[3] + ((color[3] * a) \div 1000), b[4] + a>>]

\* splatVelFrag: v = texture(uTarget, vUv).xy + uForce * a.
splatVelFrag(base, w, h, point, force, radius) ==
    [p \in Cells(w, h) |->
        LET a == Falloff(p, w, h, point, radius)
            b == base[p]
        IN  <<b[1] + ((force[1] * a) \div 1000), b[2] + ((force[2] * a) \div 1000)>>]

----------------------------------------------------------------------------
(* GL command stream.  G carries what a handler changes pass by pass:       *)
(* [dye, velocity, pressure, data, log].                                    *)

GpuNow == [dye |-> dye, velocity |-> velocity, pressure |-> pressure,
           data |-> texData, log |-> <<>>]

\* Rendering to a half-float texture needs EXT_color_buffer_float: without it
\* the framebuffer is incomplete and draws and clears to it write nothing.
Renderable == "EXT_color_buffer_float" \in extensions

Entry(op, prog, field, fb, target, reads, dt, radius) ==
    [op |-> op, prog |-> prog, field |-> field, fbo |-> fb, target |-> target,
     reads |-> reads, dt |-> dt, radius |-> radius]

\* The texture a draw to framebuffer fb writes.
Target(fb) == IF fb \in DOMAIN fbAttach THEN fbAttach[fb] ELSE Screen

\* bindFramebuffer(fb) then bindAndDraw(prg, uniforms): one full-screen pass
\* sampling the textures `reads` and writing `out` to fb's attachment.
bindAndDraw(G, prog, field, fb, reads, out, dt, radius) ==
    [G EXCEPT
        !.data = IF fb \in DOMAIN fbAttach /\ Renderable
                 THEN [@ EXCEPT ![fbAttach[fb]] = Tabulate(out)] ELSE @,
        !.log = Append(@, Entry("draw", prog, field, fb, Target(fb), reads, dt, radius))]

\* A clear whose colour has 1 in the red channel.
clearPassToOne(G, field, fb) ==
    [G EXCEPT
        !.data = IF fb \in DOMAIN fbAttach /\ Renderable
                 THEN [@ EXCEPT ![fbAttach[fb]] =
                         Tabulate([p \in DOMAIN @ |->
                                     Tabulate([c \in DOMAIN @[p] |-> 1000])])]
                 ELSE @,
        !.log = Append(@, Entry("clear", "clear", field, fb, Target(fb), {}, -1, -1))]

\* gl.clearColor(0,0,0,1); gl.clear(COLOR_BUFFER_BIT) on a one-channel target.
clearPass(G, field, fb) ==
    [G EXCEPT
        !.data = IF fb \in DOMAIN fbAttach /\ Renderable
                 THEN [@ EXCEPT ![fbAttach[fb]] =
                         Tabulate([p \in DOMAIN @ |->
                                     Tabulate([c \in DOMAIN @[p] |-> 0])])]
                 ELSE @,
        !.log = Append(@, Entry("clear", "clear", field, fb, Target(fb), {}, -1, -1))]

SwapEntry(field) == Entry("swap", "swap", field, Screen, Screen, {}, -1, -1)
swapDye(G) == [G EXCEPT !.dye = swap(@), !.log = Append(@, SwapEntry("dye"))]
swapVelocity(G) ==
    [G EXCEPT !.velocity = swap(@), !.log = Append(@, SwapEntry("velocity"))]
swapPressure(G) ==
    [G EXCEPT !.pressure = swap(@), !.log = Append(@, SwapEntry("pressure"))]

RafEntry == Entry("raf", "step", "none", Screen, Screen, {}, -1, -1)
\* A frame that requests two successors.
requestFrameTwice(G) == [G EXCEPT !.log = Append(Append(@, RafEntry), RafEntry)]

\* requestAnimationFrame(step), as the handler's trace records it.
requestFrame(G) == [G EXCEPT !.log = Append(@, RafEntry)]

----------------------------------------------------------------------------
(* The passes of initFluid's closure *)

clearDye == 995
clearVel == 995
pressureIters == 15

\* advect(dst, src, vel, dt) on the velocity field: step passes
\* (velocity.write, velocity.read, velocity.read, dt).
advectVelocity(G, dt) ==
    bindAndDraw(G, "advect", "velocity", G.velocity.write.fbo,
                {G.velocity.read.tex},
                advectFrag(G.data[G.velocity.read.tex], G.data[G.velocity.read.tex],
                           width, height, dt),
                dt, -1)

\* advect(dye.write, dye.read, velocity.read, dt).
advectDye(G, dt) ==
    bindAndDraw(G, "advect", "dye", G.dye.write.fbo,
                {G.dye.read.tex, G.velocity.read.tex},
                advectFrag(G.data[G.dye.read.tex], G.data[G.velocity.read.tex],
                           width, height, dt),
                dt, -1)

\* applyDissipation(velocity.write, velocity.read, clearVel).
dissipateVelocity(G) ==
    bindAndDraw(G, "clear", "velocity", G.velocity.write.fbo, {G.velocity.read.tex},
                clearFrag(G.data[G.velocity.read.tex], clearVel), -1, -1)

\* A dye pass that copies the dye without fading it.
dissipateDyeKeep(G) ==
    bindAndDraw(G, "clear", "dye", G.dye.write.fbo, {G.dye.read.tex},
                clearFrag(G.data[G.dye.read.tex], 1000), -1, -1)

\* applyDissipation(dye.write, dye.read, clearDye).
dissipateDye(G) ==
    bindAndDraw(G, "clear", "dye", G.dye.write.fbo, {G.dye.read.tex},
                clearFrag(G.data[G.dye.read.tex], clearDye), -1, -1)

computeDivergence(G) ==
    bindAndDraw(G, "divergence", "divergence", divergence.fbo, {G.velocity.read.tex},
                divergenceFrag(G.data[G.velocity.read.tex], width, height), -1, -1)

\* An iteration that swaps the pressure roles before and after its pass.
jacobiPassSwapTwice(G) ==
    swapPressure(
        bindAndDraw(swapPressure(G), "pressure", "pressure", G.pressure.read.fbo,
                    {G.pressure.write.tex, divergence.tex},
                    pressureFrag(G.data[G.pressure.write.tex], G.data[divergence.tex],
                                 width, height),
                    -1, -1))

\* One iteration of solvePressure's loop: the Jacobi pass, then pressure.swap().
jacobiPass(G) ==
    swapPressure(
        bindAndDraw(G, "pressure", "pressure", G.pressure.write.fbo,
                    {G.pressure.read.tex, divergence.tex},
                    pressureFrag(G.data[G.pressure.read.tex], G.data[divergence.tex],
                                 width, height),
                    -1, -1))

RECURSIVE jacobiLoop(_, _)
jacobiLoop(G, n) ==
    IF n <= 0 THEN G ELSE jacobiLoop(jacobiPass(G), n - 1)

\* A solve that starts from the pressure the previous frame left (warm start).
solvePressureWarmStart(G) == jacobiLoop(G, pressureIters)

\* solvePressure: clear pressure.write, swap, then pressureIters Jacobi passes.
solvePressure(G) ==
    jacobiLoop(swapPressure(clearPass(G, "pressure", G.pressure.write.fbo)),
               pressureIters)

\* A gradient pass that leaves the velocity roles as they were.
subtractGradientNoSwap(G) ==
    bindAndDraw(G, "gradient", "velocity", G.velocity.write.fbo,
                {G.velocity.read.tex, G.pressure.read.tex},
                gradientSubtractFrag(G.data[G.velocity.read.tex],
                                     G.data[G.pressure.read.tex], width, height),
                -1, -1)

subtractGradient(G) ==
    swapVelocity(
        bindAndDraw(G, "gradient", "velocity", G.velocity.write.fbo,
                    {G.velocity.read.tex, G.pressure.read.tex},
                    gradientSubtractFrag(G.data[G.velocity.read.tex],
                                         G.data[G.pressure.read.tex], width, height),
                    -1, -1))

\* render(): draw dye.read to the default framebuffer.
render(G) ==
    bindAndDraw(G, "display", "screen", Screen, {G.dye.read.tex},
                G.data[G.dye.read.tex], -1, -1)

\* A dt without the 0.032 s clamp.
frameDtUnclamped(now, last) == now - last

\* const dt = Math.min(0.032, (now - lastT) / 1000)
frameDt(now, last) == Min(32, now - last)

\* A step() that advects the dye before the velocity has been projected.
stepPassesDyeFirst(G, dt) ==
    LET s1(g) == swapVelocity(advectVelocity(g, dt))
        s2(g) == swapVelocity(dissipateVelocity(g))
        s3(g) == swapDye(advectDye(g, dt))
        s4(g) == computeDivergence(g)
        s5(g) == solvePressure(g)
        s6(g) == subtractGradient(g)
        s7(g) == swapDye(dissipateDye(g))
        s8(g) == render(g)
        s9(g) == requestFrame(g)
    IN  s9(s8(s7(s6(s5(s4(s3(s2(s1(G)))))))))

\* The body of step() after the timestamp bookkeeping.
stepPasses(G, dt) ==
    LET s1(g) == swapVelocity(advectVelocity(g, dt))
        s2(g) == swapVelocity(dissipateVelocity(g))
        s3(g) == computeDivergence(g)
        s4(g) == solvePressure(g)
        s5(g) == subtractGradient(g)
        s6(g) == swapDye(advectDye(g, dt))
        s7(g) == swapDye(dissipateDye(g))
        s8(g) == render(g)
        s9(g) == requestFrame(g)
    IN  s9(s8(s7(s6(s5(s4(s3(s2(s1(G)))))))))

\* A radius with the default but without the 0.002 floor.
splatRadiusNoFloor(radius) == IF radius = <<>> THEN 40 ELSE radius[1]

\* radius = radius==null ? 0.04 : radius; cr = Math.max(0.002, radius)
splatRadius(radius) == Max(2, IF radius = <<>> THEN 40 ELSE radius[1])

\* fx = force && force[0] || 0, fy = force && force[1] || 0
splatForce(force) == IF force = <<>> THEN <<0, 0>> ELSE force[1]

\* The body of splat(x, y, color, radius, force).
splatPasses(G, x, y, color, radius, force) ==
    LET cr == splatRadius(radius)
        f  == splatForce(force)
        dyePass(g) ==
            swapDye(
                bindAndDraw(g, "splat", "dye", g.dye.write.fbo, {g.dye.read.tex},
                            splatFrag(g.data[g.dye.read.tex], width, height,
                                      <<x, y>>, color, cr),
                            -1, cr))
        velPass(g) ==
            swapVelocity(
                bindAndDraw(g, "splatVel", "velocity", g.velocity.write.fbo,
                            {g.velocity.read.tex},
                            splatVelFrag(g.data[g.velocity.read.tex], width, height,
                                         <<x, y>>, f, cr),
                            -1, cr))
    IN  velPass(dyePass(G))

\* v || d for a number: a falsy (absent or zero) v gives the default d.
OrDefault(v, d) == IF v = 0 THEN d ELSE v

\* opts.name || d: an option that is absent, or given as 0, gives the default d.
Option(o, d) == IF o = <<>> THEN d ELSE OrDefault(o[1], d)

\* cos and sin of a = Math.random() * 2 * PI, taken at the four quarter turns.
Direction(a) ==
    CASE a = 0 -> <<1000, 0>>
      [] a = 1 -> <<0, 1000>>
      [] a = 2 -> <<-1000, 0>>
      [] OTHER -> <<0, -1000>>

\* The arguments splatRandom hands to splat for one iteration, from that
\* iteration's Math.random() results rnd = [x, y, r, a, m, c].
randomSplat(opts, rnd) ==
    LET minR == Option(opts.minRadius, 15)
        maxR == Option(opts.maxRadius, 60)
        maxF == Option(opts.maxForce, 2500)
        r    == minR + ((rnd.r * (maxR - minR)) \div 1000)
        m    == (Option(opts.forceScale, 1000) * (200 + ((800 * rnd.m) \div 1000))) \div 1000
        dir  == Direction(rnd.a)
        f    == <<(((dir[1] * maxF) \div 1000) * m) \div 1000,
                  (((dir[2] * maxF) \div 1000) * m) \div 1000>>
        c    == IF opts.color = <<>> THEN rnd.c ELSE opts.color[1]
    IN  [x |-> rnd.x, y |-> rnd.y, color |-> c, radius |-> <<r>>, force |-> <<f>>]

\* for (let i = 0; i < count; i++) splat(...): one iteration per element of rs.
RECURSIVE splatRandomLoop(_, _, _)
splatRandomLoop(G, opts, rs) ==
    IF rs = <<>> THEN G
    ELSE LET a == randomSplat(opts, Head(rs))
         IN  splatRandomLoop(splatPasses(G, a.x, a.y, a.color, a.radius, a.force),
                             opts, Tail(rs))

\* A loop that tests its condition after the body: at least one iteration.
loopCountDoWhile(count) == Max(1, count)

\* Number of iterations of splatRandom's loop for a given count.
loopCount(count) == Max(0, count)

----------------------------------------------------------------------------
(* setSize / initFluid *)

\* canvas.clientWidth / clientHeight: the layout box, 0 once detached.
clientSize(attached, lay) == IF attached THEN lay ELSE <<0, 0>>

\* A field size floored at 1 instead of 2.
fieldSizeMin1(client, dprv) == Max(1, (client * dprv) \div 2)

\* Math.max(2, Math.floor(canvas.clientWidth * dpr))
fieldSize(client, dprv) == Max(2, (client * dprv) \div 2)

\* A pixel ratio that follows the device without a cap.
pixelRatioUncapped(devRatio, maxDPR) == OrDefault(devRatio, 2)

\* const dpr = Math.min(window.devicePixelRatio || 1, opts.maxDPR || 2)
pixelRatio(devRatio, maxDPR) == Min(OrDefault(devRatio, 2), OrDefault(maxDPR, 4))

AllocEntry(field, f) == Entry("alloc", "createFBO", field, f.fbo, f.tex, {}, -1, -1)

\* A setSize() that replaces the fields whether or not the size has changed.
setSizeAlways(client, dprv, after) ==
    LET w  == fieldSize(client[1], dprv)
        h  == fieldSize(client[2], dprv)
        d  == createDoubleFBO(nextId, w, h)
        v  == createDoubleFBO(nextId + 2, w, h)
        p  == createDoubleFBO(nextId + 4, w, h)
        dv == createFBO(nextId + 6, w, h)
        made == <<[f |-> d.read, ch |-> 4], [f |-> d.write, ch |-> 4],
                  [f |-> v.read, ch |-> 2], [f |-> v.write, ch |-> 2],
                  [f |-> p.read, ch |-> 1], [f |-> p.write, ch |-> 1],
                  [f |-> dv, ch |-> 1]>>
        newTex == {made[i].f.tex : i \in DOMAIN made}
        ofTex(t) == CHOOSE i \in DOMAIN made : made[i].f.tex = t
    IN  /\ width' = w
        /\ height' = h
        /\ dye' = d
        /\ velocity' = v
        /\ pressure' = p
        /\ divergence' = dv
        /\ texel' = <<w, h>>
        /\ nextId' = nextId + 7
        /\ fbAttach' = [f \in DOMAIN fbAttach \cup {made[i].f.fbo : i \in DOMAIN made} |->
                          IF f \in DOMAIN fbAttach THEN fbAttach[f] ELSE <<"tex", f[2]>>]
        /\ texData' = [t \in DOMAIN texData \cup newTex |->
                          IF t \in newTex THEN ZeroGrid(w, h, made[ofTex(t)].ch)
                          ELSE texData[t]]
        /\ gpuLog' = [i \in DOMAIN made |-> AllocEntry("field", made[i].f)] \o after

\* setSize(): returns early when the size is unchanged, else replaces all four
\* fields by freshly allocated ones.  `after` is what the caller's trace adds.
setSize(client, dprv, after) ==
    LET w  == fieldSize(client[1], dprv)
        h  == fieldSize(client[2], dprv)
        d  == createDoubleFBO(nextId, w, h)
        v  == createDoubleFBO(nextId + 2, w, h)
        p  == createDoubleFBO(nextId + 4, w, h)
        dv == createFBO(nextId + 6, w, h)
        made == <<[f |-> d.read, n |-> "dye", ch |-> 4],
                  [f |-> d.write, n |-> "dye", ch |-> 4],
                  [f |-> v.read, n |-> "velocity", ch |-> 2],
                  [f |-> v.write, n |-> "velocity", ch |-> 2],
                  [f |-> p.read, n |-> "pressure", ch |-> 1],
                  [f |-> p.write, n |-> "pressure", ch |-> 1],
                  [f |-> dv, n |-> "divergence", ch |-> 1]>>
        newFbo == {made[i].f.fbo : i \in DOMAIN made}
        newTex == {made[i].f.tex : i \in DOMAIN made}
        ofFbo(f) == CHOOSE i \in DOMAIN made : made[i].f.fbo = f
        ofTex(t) == CHOOSE i \in DOMAIN made : made[i].f.tex = t
    IN  IF w = width /\ h = height
        THEN /\ UNCHANGED gpuVars
             /\ gpuLog' = after
        ELSE /\ width' = w
             /\ height' = h
             /\ dye' = d
             /\ velocity' = v
             /\ pressure' = p
             /\ divergence' = dv
             /\ texel' = <<w, h>>
             /\ nextId' = nextId + 7
             /\ fbAttach' = [f \in DOMAIN fbAttach \cup newFbo |->
                               IF f \in newFbo THEN made[ofFbo(f)].f.tex ELSE fbAttach[f]]
             /\ texData' = [t \in DOMAIN texData \cup newTex |->
                               IF t \in newTex THEN ZeroGrid(w, h, made[ofTex(t)].ch)
                               ELSE texData[t]]
             /\ gpuLog' = [i \in DOMAIN made |-> AllocEntry(made[i].n, made[i].f)] \o after

\* initFluid(container, opts).  ctx: getContext('webgl2') succeeds; shaders:
\* "ok", or the first compile / link failure among the nine programs.
initFluid(ctx, shaders, maxDPR) ==
    /\ pc = "start"
    /\ dpr' = pixelRatio(devicePixelRatio, maxDPR)
    /\ optsMaxDPR' = maxDPR
    /\ canvasAttached' = TRUE                       \* container.appendChild(canvas)
    /\ glContext' = IF ctx THEN "webgl2" ELSE "null"
    /\ lastOp' = "initFluid"
    /\ lastArgs' = [ctx |-> ctx, shaders |-> shaders, maxDPR |-> maxDPR]
    /\ UNCHANGED <<extensions, devicePixelRatio, layout, surfaceVisible, clock,
                   destroyed, calls>>
    /\ IF ~ctx \/ shaders # "ok"
       THEN /\ pc' = "failed"
            /\ thrown' = IF ~ctx THEN "WebGL2 not supported"
                         ELSE IF shaders = "compile" THEN "Shader compile error"
                         ELSE "Program link error"
            /\ gpuLog' = <<>>
            /\ UNCHANGED gpuVars
            /\ UNCHANGED <<lastT, rafPending>>
       ELSE /\ pc' = "live"
            /\ thrown' = "none"
            /\ lastT' = clock                       \* let lastT = performance.now()
            /\ setSize(clientSize(TRUE, layout), pixelRatio(devicePixelRatio, maxDPR),
                       <<RafEntry>>)
            /\ rafPending' = rafPending + 1         \* requestAnimationFrame(step)

\* The page calls initFluid.
InitFluid(ctx, shaders, maxDPR) ==
    /\ initFluid(ctx, shaders, maxDPR)
    /\ UNCHANGED <<displayVars, themeVars>>

----------------------------------------------------------------------------
(* The handle's methods and the frame callback *)

Commit(G) ==
    /\ dye' = G.dye
    /\ velocity' = G.velocity
    /\ pressure' = G.pressure
    /\ texData' = G.data
    /\ gpuLog' = G.log
    /\ UNCHANGED <<width, height, texel, divergence, fbAttach, nextId>>

\* Number of requestAnimationFrame calls in a handler's trace.
RafCount(log) == Cardinality({i \in DOMAIN log : log[i].op = "raf"})

\* The frame callback: step(), fired `elapsed` ms after the previous clock
\* reading, with the hosting surface visible or not.
Step(elapsed, visible) ==
    /\ pc = "live"
    /\ rafPending > 0
    /\ calls < MaxCalls
    /\ \E now \in {clock + elapsed} :
         \E G \in {stepPasses(GpuNow, frameDt(now, lastT))} :
           /\ clock' = now
           /\ lastT' = now
           /\ Commit(G)
           /\ rafPending' = (rafPending - 1) + RafCount(G.log)
    /\ surfaceVisible' = visible
    /\ lastOp' = "step"
    /\ lastArgs' = [elapsed |-> elapsed, visible |-> visible, prevT |-> lastT]
    /\ calls' = calls + 1
    /\ UNCHANGED <<pc, glContext, thrown, canvasAttached, layout, destroyed>>
    /\ UNCHANGED envVars
    /\ UNCHANGED <<displayVars, themeVars>>

\* sim.splat(x, y, color, radius, force)
Splat(a) ==
    /\ pc = "live"
    /\ calls < MaxCalls
    /\ \E G \in {splatPasses(GpuNow, a.x, a.y, a.color, a.radius, a.force)} : Commit(G)
    /\ lastOp' = "splat"
    /\ lastArgs' = a
    /\ calls' = calls + 1
    /\ UNCHANGED <<pc, glContext, thrown, canvasAttached, layout, surfaceVisible,
                   lastT, clock, rafPending, destroyed>>
    /\ UNCHANGED envVars
    /\ UNCHANGED <<displayVars, themeVars>>

\* sim.splatRandom(count, opts); rs holds the Math.random() results of each
\* iteration, and lastArgs.issued the arguments each iteration hands to splat.
SplatRandom(count, opts, rs) ==
    /\ pc = "live"
    /\ calls < MaxCalls
    /\ Len(rs) = loopCount(count)
    /\ \E G \in {splatRandomLoop(GpuNow, opts, rs)} : Commit(G)
    /\ lastOp' = "splatRandom"
    /\ lastArgs' = [count |-> count, opts |-> opts, rs |-> rs,
                    issued |-> [i \in DOMAIN rs |-> randomSplat(opts, rs[i])]]
    /\ calls' = calls + 1
    /\ UNCHANGED <<pc, glContext, thrown, canvasAttached, layout, surfaceVisible,
                   lastT, clock, rafPending, destroyed>>
    /\ UNCHANGED envVars
    /\ UNCHANGED <<displayVars, themeVars>>

\* sim.resize(), called with the container laid out as lay (a window resize
\* changes the layout and then calls resize(); lay = layout is a bare call).
Resize(lay) ==
    /\ pc = "live"
    /\ calls < MaxCalls
    /\ layout' = lay
    /\ setSize(clientSize(canvasAttached, lay), dpr, <<>>)
    /\ lastOp' = "resize"
    /\ lastArgs' = [layout |-> lay, before |-> <<width, height>>]
    /\ calls' = calls + 1
    /\ UNCHANGED <<pc, glContext, thrown, canvasAttached, surfaceVisible,
                   lastT, clock, rafPending, destroyed>>
    /\ UNCHANGED envVars
    /\ UNCHANGED <<displayVars, themeVars>>

\* sim.destroy(): removes the canvas from its parent, and nothing else.
Destroy ==
    /\ pc = "live"
    /\ calls < MaxCalls
    /\ canvasAttached' = FALSE
    /\ destroyed' = TRUE
    /\ gpuLog' = <<>>
    /\ lastOp' = "destroy"
    /\ lastArgs' = [none |-> TRUE]
    /\ calls' = calls + 1
    /\ UNCHANGED <<pc, glContext, thrown, layout, surfaceVisible, lastT, clock, rafPending>>
    /\ UNCHANGED gpuVars
    /\ UNCHANGED envVars
    /\ UNCHANGED <<displayVars, themeVars>>

----------------------------------------------------------------------------
(* The display client (display.js): its countdown and the window hooks the  *)
(* themes install (window.onNumberChange, window.onFinaleBurst).            *)

\* Cap on the one-second changes and on the finished countdowns explored.
MaxTicks == 3

\* state.status === 'in_session' || state.status === 'pre_session'
Running(st) == st.status \in {"in_session", "pre_session"}

\* The countdown's record once the remaining time of st has become `after`
\* without a change of status: a running countdown that moved by one second,
\* and one that reached zero for the first time since it was last left.
Counted(cd, st, after) ==
    LET zero == Running(st) /\ st.remaining > 0 /\ after = 0
    IN  [seconds |-> cd.seconds + (IF Running(st) /\ st.remaining - after = 1 THEN 1 ELSE 0),
         finales |-> cd.finales + (IF zero /\ ~cd.due THEN 1 ELSE 0),
         due     |-> cd.due \/ zero]

WithinTicks == countdown.seconds < MaxTicks /\ countdown.finales < MaxTicks

\* handleSecondChange(remaining): calls window.onNumberChange(remaining) when
\* a theme has installed it.  display.js has no call site for it.
handleSecondChange ==
    /\ hookCalls' = [hookCalls EXCEPT !.onNumberChange = @ + 1]
    /\ UNCHANGED <<state, tickStarted, countdown, pollingStarted, timers>>
    /\ UNCHANGED <<fluidVars, themeVars>>

\* finaleBurstOnce(): calls window.onFinaleBurst() unless state._finaleDone.
\* display.js has no call site for it.
finaleBurstOnce ==
    /\ IF state.finaleDone
       THEN UNCHANGED <<state, hookCalls>>
       ELSE /\ state' = [state EXCEPT !.finaleDone = TRUE]
            /\ hookCalls' = [hookCalls EXCEPT !.onFinaleBurst = @ + 1]
    /\ UNCHANGED <<tickStarted, countdown, pollingStarted, timers>>
    /\ UNCHANGED <<fluidVars, themeVars>>

\* startLocalTick(): installs the one-second interval unless
\* window.__tickStarted says it has been installed.
startLocalTick ==
    /\ tickStarted' = TRUE
    /\ timers' = [timers EXCEPT !.tick = IF tickStarted THEN @ ELSE @ + 1]

\* A startPolling() without its __pollingStarted guard.
startPollingUnguarded ==
    /\ pollingStarted' = TRUE
    /\ tickStarted' = TRUE
    /\ timers' = [timers EXCEPT !.poll = @ + 1,
                                !.tick = IF tickStarted THEN @ ELSE @ + 1]

\* startPolling(): unless __pollingStarted, fetches /now, installs the
\* 10-second fetchNow interval and calls startLocalTick().
startPolling ==
    IF pollingStarted
    THEN UNCHANGED <<pollingStarted, tickStarted, timers>>
    ELSE /\ pollingStarted' = TRUE
         /\ tickStarted' = TRUE
         /\ timers' = [timers EXCEPT !.poll = @ + 1,
                                     !.tick = IF tickStarted THEN @ ELSE @ + 1]

StartLocalTick ==
    /\ startLocalTick
    /\ UNCHANGED <<state, hookCalls, countdown, pollingStarted>>
    /\ UNCHANGED <<fluidVars, themeVars>>

StartPolling ==
    /\ startPolling
    /\ UNCHANGED <<state, hookCalls, countdown>>
    /\ UNCHANGED <<fluidVars, themeVars>>

\* startSSE(): without EventSource in the window, or when its constructor
\* throws, falls back to startPolling(); otherwise opens the event stream.
StartSSE(hasEventSource) ==
    /\ IF hasEventSource
       THEN /\ timers' = [timers EXCEPT !.sse = TRUE]
            /\ UNCHANGED <<pollingStarted, tickStarted>>
       ELSE startPolling
    /\ UNCHANGED <<state, hookCalls, countdown>>
    /\ UNCHANGED <<fluidVars, themeVars>>

\* es.onerror: the event stream failed (it may fail again): startPolling().
SseError ==
    /\ timers.sse
    /\ startPolling
    /\ UNCHANGED <<state, hookCalls, countdown>>
    /\ UNCHANGED <<fluidVars, themeVars>>

\* The interval callback of startLocalTick: a running countdown above zero
\* loses one second and the overlay is redrawn (applyStateVisual).
LocalTick ==
    /\ tickStarted
    /\ WithinTicks
    /\ IF Running(state) /\ state.remaining > 0
       THEN /\ state' = [state EXCEPT !.remaining = @ - 1]
            /\ countdown' = Counted(countdown, state, state.remaining - 1)
       ELSE UNCHANGED <<state, countdown>>
    /\ UNCHANGED <<tickStarted, hookCalls, pollingStarted, timers>>
    /\ UNCHANGED <<fluidVars, themeVars>>

\* updateFromPayload(data): a snapshot from /now or /events replaces remaining
\* and status; leaving the session clears state._finaleDone.
UpdateFromPayload(data) ==
    /\ WithinTicks
    /\ state' = [remaining  |-> Max(0, data.remaining),
                 status     |-> data.status,
                 finaleDone |-> IF data.status = "in_session" THEN state.finaleDone
                                ELSE FALSE]
    /\ countdown' = [countdown EXCEPT
                        !.due = IF data.status = "in_session" THEN @ ELSE FALSE]
    /\ UNCHANGED <<tickStarted, hookCalls, pollingStarted, timers>>
    /\ UNCHANGED <<fluidVars, themeVars>>

\* The 'tick' event of /events: state.remaining = Math.max(0, remainingSeconds).
TickEvent(remainingSeconds) ==
    /\ WithinTicks
    /\ state' = [state EXCEPT !.remaining = Max(0, remainingSeconds)]
    /\ countdown' = Counted(countdown, state, Max(0, remainingSeconds))
    /\ UNCHANGED <<tickStarted, hookCalls, pollingStarted, timers>>
    /\ UNCHANGED <<fluidVars, themeVars>>

----------------------------------------------------------------------------
(* The fluid theme wrapper (fluid_theme.js): begin() and the hooks and      *)
(* listeners it installs.  theme.sim is "null" or "handle", the value       *)
(* initFluid returned; the calls the wrapper makes on the handle are        *)
(* recorded in theme.simCalls, what they do is SplatRandom, Splat, Resize.  *)

\* const n = 28 in seedAmbient
SeedSplats == 28

\* The options object the wrapper hands to sim.splatRandom.
ThemeOpts(color, forceScale, minRadius, maxRadius, maxForce) ==
    [minRadius |-> <<minRadius>>, maxRadius |-> <<maxRadius>>, maxForce |-> <<maxForce>>,
     forceScale |-> <<forceScale>>, color |-> <<color>>]

\* sim.method(args): with sim null the property access throws a TypeError.
callSim(th, method, args) ==
    IF th.sim = "null"
    THEN [th EXCEPT !.thrown = TRUE]
    ELSE [th EXCEPT !.simCalls = Append(@, [method |-> method, args |-> args])]

lerp(a, b, t) == a + ((b - a) * t) \div 1000
lerp3(a, b, t) == <<lerp(a[1], b[1], t), lerp(a[2], b[2], t), lerp(a[3], b[3], t)>>
brighten(c, f) == <<Clamp((c[1] * f) \div 1000, 0, 1000), Clamp((c[2] * f) \div 1000, 0, 1000),
                    Clamp((c[3] * f) \div 1000, 0, 1000)>>
\* Math.floor(min + Math.random()*(max-min+1)), r the Math.random() result
randInt(min, max, r) == min + (r * (max - min + 1)) \div 1000

progressionColor(remaining, totalSeconds) ==
    LET total == Max(1, OrDefault(totalSeconds, 1))
        t == Clamp(1000 - (1000 * Max(0, remaining)) \div total, 0, 1000)
    IN  IF t < 340
        THEN lerp3(<<20, 550, 850>>, <<0, 800, 950>>, (t * 1000) \div 340)
        ELSE IF t < 670
        THEN lerp3(<<480, 360, 820>>, <<1000, 550, 120>>, ((t - 340) * 1000) \div 330)
        ELSE lerp3(<<1000, 430, 0>>, <<1000, 70, 150>>, ((t - 670) * 1000) \div 330)

\* seedAmbient(): returns when sim is null, else 28 single random splats in a
\* palette colour; s holds the Math.random() results (the same in each round).
seedAmbient(th, s) ==
    LET cools == <<<<20, 350, 700>>, <<0, 550, 850>>, <<150, 200, 450>>>>
        warms == <<<<1000, 380, 0>>, <<1000, 620, 100>>, <<950, 180, 120>>>>
        pal == IF s.pal < 500 THEN cools ELSE warms
        c == pal[(s.r * 3) \div 1000 + 1]
        seed == [method |-> "splatRandom",
                 args |-> <<1, ThemeOpts(brighten(c, 900 + (s.r * 700) \div 1000),
                                         350 + (s.r * 850) \div 1000, 20, 70, 2400)>>]
    IN  IF th.sim = "null" THEN th
        ELSE [th EXCEPT !.simCalls = @ \o [i \in 1 .. SeedSplats |-> seed]]

splatSmall(th, color, r) ==
    IF th.sim # "null"
    THEN callSim(th, "splatRandom", <<randInt(1, 3, r), ThemeOpts(color, 900, 12, 45, 2200)>>)
    ELSE th
splatStrong(th, color, r) ==
    IF th.sim # "null"
    THEN callSim(th, "splatRandom",
                 <<randInt(4, 7, r), ThemeOpts(brighten(color, 1400), 1900, 22, 75, 3400)>>)
    ELSE th
splatMinute(th, color, r) ==
    IF th.sim # "null"
    THEN callSim(th, "splatRandom",
                 <<randInt(16, 22, r), ThemeOpts(brighten(color, 1550), 2500, 30, 90, 4000)>>)
    ELSE th

\* hookInteractions(): returns when sim is null, else adds the pointermove
\* listener to the container.
hookInteractions(th) ==
    IF th.sim = "null" THEN th
    ELSE [th EXCEPT !.lastX = 500, !.lastY = 500, !.hooks = @ \cup {"pointermove"}]

\* installHooks(): assigns the three window hooks, whatever sim is.
installHooks(th) ==
    [th EXCEPT !.hooks = @ \cup {"setTotalSeconds", "onNumberChange", "onFinaleBurst"}]

\* A begin() that installs the hooks and the resize listener before it calls
\* initFluid.
beginHooksFirst(th, throws, s) ==
    LET a == installHooks(th)
        b == [a EXCEPT !.hooks = @ \cup {"resize"}]
        c == IF throws THEN [b EXCEPT !.thrown = TRUE] ELSE [b EXCEPT !.sim = "handle"]
        d == IF c.thrown THEN c ELSE seedAmbient(c, s)
        e == IF d.thrown THEN d ELSE hookInteractions(d)
    IN  [e EXCEPT !.thrown = FALSE, !.warned = e.thrown,
                  !.phase = IF e.thrown THEN "failed" ELSE "running"]

\* begin(): the try block stops at the first statement that throws; the catch
\* logs a warning and nothing leaves begin.  throws: initFluid threw, so the
\* assignment to sim did not happen.
begin(th, throws, s) ==
    LET a == IF throws THEN [th EXCEPT !.thrown = TRUE] ELSE [th EXCEPT !.sim = "handle"]
        b == IF a.thrown THEN a ELSE seedAmbient(a, s)
        c == IF b.thrown THEN b ELSE hookInteractions(b)
        d == IF c.thrown THEN c ELSE installHooks(c)
        e == IF d.thrown THEN d ELSE [d EXCEPT !.hooks = @ \cup {"resize"}]
    IN  [e EXCEPT !.thrown = FALSE, !.warned = e.thrown,
                  !.phase = IF e.thrown THEN "failed" ELSE "running"]

\* A hook or listener starts with an empty call record.
Enter(hook) == [theme EXCEPT !.simCalls = <<>>, !.last = hook]
\* A hook or listener returns to the page that called it: an exception still
\* in flight reaches the page.
Leave(th) == [th EXCEPT !.raised = @ \/ th.thrown, !.thrown = FALSE]

\* ensureAndStart(): begin() at once when window.initFluid is there, otherwise
\* after fluid.js has loaded (core); a failed load logs a warning.
\* begin() calls window.initFluid(container, { maxDPR: 2 }).
EnsureAndStart(core, ctx, shaders, s) ==
    /\ theme.phase = "loaded"
    /\ IF core
       THEN /\ initFluid(ctx, shaders, 4)
            /\ theme' = begin(theme, pc' = "failed", s)
       ELSE /\ theme' = [theme EXCEPT !.phase = "noCore", !.warned = TRUE]
            /\ UNCHANGED fluidVars
    /\ UNCHANGED displayVars

\* window.setTotalSeconds(total), called by a page that finds it installed.
SetTotalSeconds(total) ==
    /\ "setTotalSeconds" \in theme.hooks
    /\ theme' = Leave([Enter("setTotalSeconds") EXCEPT
                          !.totalSeconds = IF total > 0 THEN total ELSE @])
    /\ UNCHANGED <<fluidVars, displayVars>>

\* window.onNumberChange(remaining), called by a page that finds it installed.
OnNumberChange(remaining, r) ==
    /\ "onNumberChange" \in theme.hooks
    /\ LET rem == Max(0, remaining)
           isMinute == rem > 0 /\ rem % 60 = 0
           col == progressionColor(rem, theme.totalSeconds)
           th == Enter("onNumberChange")
       IN  theme' = Leave(IF isMinute THEN splatMinute(th, col, r)
                          ELSE IF rem % 10 = 0 THEN splatStrong(th, col, r)
                          ELSE splatSmall(th, col, r))
    /\ UNCHANGED <<fluidVars, displayVars>>

RECURSIVE finaleLoop(_, _)
\* for(let i=0;i<5;i++) sim.splatRandom(18, ...), from round i on
finaleLoop(th, i) ==
    LET hues == <<<<1000, 500, 100>>, <<950, 200, 150>>, <<100, 650, 1000>>,
                  <<600, 300, 1000>>, <<200, 1000, 600>>>>
    IN  IF i >= 5 \/ th.thrown THEN th
        ELSE finaleLoop(callSim(th, "splatRandom",
                                <<18, ThemeOpts(brighten(hues[(i % 5) + 1], 1400),
                                                2800, 35, 100, 4500)>>), i + 1)

\* window.onFinaleBurst(), called by a page that finds it installed.
OnFinaleBurst ==
    /\ "onFinaleBurst" \in theme.hooks
    /\ theme' = Leave(finaleLoop(Enter("onFinaleBurst"), 0))
    /\ UNCHANGED <<fluidVars, displayVars>>

\* The container's pointermove listener, the pointer at (x, y) of the
\* container; r is the Math.random() result of the colour.
PointerMove(x, y, r) ==
    /\ "pointermove" \in theme.hooks
    /\ LET th == [Enter("pointermove") EXCEPT !.lastX = x, !.lastY = y]
       IN  theme' = Leave(callSim(th, "splat",
                                  <<x, y, <<(700 * r) \div 1000, (700 * r) \div 1000, r>>, 30,
                                    <<(x - theme.lastX) * 8, (y - theme.lastY) * 8>>>>))
    /\ UNCHANGED <<fluidVars, displayVars>>

\* The window's resize listener: try{ sim && sim.resize(); }catch(e){}
WindowResize ==
    /\ "resize" \in theme.hooks
    /\ LET th == Enter("resize")
       IN  theme' = IF th.sim = "null" THEN th
                    ELSE [callSim(th, "resize", <<>>) EXCEPT !.thrown = FALSE]
    /\ UNCHANGED <<fluidVars, displayVars>>

----------------------------------------------------------------------------
(* Inputs explored *)

ExtensionSets == {{"EXT_color_buffer_float", "OES_texture_float_linear"},
                  {"OES_texture_float_linear"}}
DevicePixelRatios == {0, 3, 6}          \* undefined, 1.5, 3.0
MaxDPROptions == {0, 2}                 \* absent, 1.0
Layouts == {<<1, 1>>, <<2, 1>>}         \* CSS pixels
ElapsedMs == {16, 5000}
ShaderResults == {"ok", "compile", "link"}

SplatInputs ==
    {[x |-> 250, y |-> 250, color |-> <<1000, 0, 0>>, radius |-> <<>>, force |-> <<>>],
     [x |-> 500, y |-> 500, color |-> <<300, 600, 900>>, radius |-> <<500>>,
      force |-> <<<<2000, -1000>>>>],
     [x |-> 750, y |-> 250, color |-> <<0, 500, 0>>, radius |-> <<0>>,
      force |-> <<<<0, 3000>>>>]}

DefaultOpts == [minRadius |-> <<>>, maxRadius |-> <<>>, maxForce |-> <<>>,
                forceScale |-> <<>>, color |-> <<>>]
\* the options of fluid_theme.js splatSmall
SmallOpts == [minRadius |-> <<12>>, maxRadius |-> <<45>>, maxForce |-> <<2200>>,
              forceScale |-> <<900>>, color |-> <<<<20, 550, 850>>>>]
\* dye only: { maxForce: 0 }
ZeroForceOpts == [minRadius |-> <<>>, maxRadius |-> <<>>, maxForce |-> <<0>>,
                  forceScale |-> <<>>, color |-> <<>>]
RandomDraws ==
    {[x |-> 250, y |-> 250, r |-> 0, a |-> 0, m |-> 0, c |-> <<999, 0, 500>>],
     [x |-> 750, y |-> 500, r |-> 999, a |-> 3, m |-> 999, c |-> <<0, 999, 0>>]}
RandomCalls ==
    {[count |-> -1, opts |-> DefaultOpts], [count |-> 0, opts |-> SmallOpts],
     [count |-> 1, opts |-> DefaultOpts], [count |-> 2, opts |-> SmallOpts],
     [count |-> 1, opts |-> ZeroForceOpts]}

\* Field contents earlier splats and frames have left when a frame starts:
\* velocities at rest, uniform, sheared (both free of divergence) and spreading,
\* pressures of a previous solve, dye.
VelocityFields(w, h) ==
    {ZeroGrid(w, h, 2),
     Tabulate([p \in Cells(w, h) |-> <<400, -200>>]),
     Tabulate([p \in Cells(w, h) |-> <<300 * (p[2] + 1), 0>>]),
     Tabulate([p \in Cells(w, h) |-> <<600 * p[1], 400 * p[2]>>])}
PressureFields(w, h) ==
    {ZeroGrid(w, h, 1),
     Tabulate([p \in Cells(w, h) |-> <<4000 + 1000 * p[1] - 500 * p[2]>>])}
DyeFields(w, h) ==
    {ZeroGrid(w, h, 4),
     Tabulate([p \in Cells(w, h) |-> <<1500, 800 + 200 * p[1], 1200, 1000>>])}
\* window.devicePixelRatio and container layout: fields of 2 x 2 and of 3 x 2.
FieldEnvironments ==
    {[ratio |-> 0, layout |-> <<1, 1>>], [ratio |-> 3, layout |-> <<2, 1>>]}

Statuses == {"idle", "pre_session", "in_session"}
RemainingValues == {-1, 0, 1, 2}        \* seconds a payload or a tick event carries
Payloads == [status : Statuses, remaining : RemainingValues]

RandomUnits == {0, 500, 999}            \* Math.random() results
SeedDraws == [pal : {0, 999}, r : RandomUnits]
TotalValues == {-5, 60, 600}            \* arguments of setTotalSeconds
CountdownValues == {-1, 0, 7, 10, 60, 120} \* arguments of onNumberChange
PointerPositions == {250, 750}

----------------------------------------------------------------------------
(* Specification *)

\* display.js before DOMContentLoaded: let state = { remaining: 0, status: 'idle' }.
DisplayStart ==
    /\ state = [remaining |-> 0, status |-> "idle", finaleDone |-> FALSE]
    /\ tickStarted = FALSE
    /\ hookCalls = [onNumberChange |-> 0, onFinaleBurst |-> 0]
    /\ countdown = [seconds |-> 0, finales |-> 0, due |-> FALSE]
    /\ pollingStarted = FALSE
    /\ timers = [poll |-> 0, tick |-> 0, sse |-> FALSE]

\* fluid_theme.js as its closure is entered: let totalSeconds = 70*60, sim = null.
ThemeStart ==
    theme = [phase |-> "loaded", sim |-> "null", totalSeconds |-> 4200,
             lastX |-> 0, lastY |-> 0, hooks |-> {}, simCalls |-> <<>>, last |-> "none",
             thrown |-> FALSE, warned |-> FALSE, raised |-> FALSE]

Init ==
    /\ DisplayStart
    /\ ThemeStart
    /\ pc = "start"
    /\ glContext = "none"
    /\ thrown = "none"
    /\ canvasAttached = FALSE
    /\ extensions \in ExtensionSets
    /\ devicePixelRatio \in DevicePixelRatios
    /\ optsMaxDPR = 0
    /\ dpr = 0
    /\ layout \in Layouts
    /\ surfaceVisible = TRUE
    /\ width = 0
    /\ height = 0
    /\ texel = <<0, 0>>
    /\ dye = NoDouble
    /\ velocity = NoDouble
    /\ pressure = NoDouble
    /\ divergence = NoFBO
    /\ fbAttach = <<>>
    /\ texData = <<>>
    /\ nextId = 1
    /\ lastT = 0
    /\ clock = 0
    /\ rafPending = 0
    /\ destroyed = FALSE
    /\ lastOp = "none"
    /\ lastArgs = [none |-> TRUE]
    /\ gpuLog = <<>>
    /\ calls = 0

Next ==
    \/ \E ctx \in BOOLEAN, sh \in ShaderResults, m \in MaxDPROptions : InitFluid(ctx, sh, m)
    \/ \E e \in ElapsedMs, v \in BOOLEAN : Step(e, v)
    \/ \E a \in SplatInputs : Splat(a)
    \/ \E rc \in RandomCalls :
         \E rs \in [1 .. loopCount(rc.count) -> RandomDraws] :
            SplatRandom(rc.count, rc.opts, rs)
    \/ \E l \in Layouts : Resize(l)
    \/ Destroy

Spec == Init /\ [][Next]_vars

\* A simulation that has been running: initFluid has returned on a context
\* that can render to its fields, and earlier splats and frames have left
\* their contents in the fields.
InitFields ==
    /\ DisplayStart
    /\ ThemeStart
    /\ pc = "live"
    /\ glContext = "webgl2"
    /\ thrown = "none"
    /\ canvasAttached = TRUE
    /\ extensions = {"EXT_color_buffer_float", "OES_texture_float_linear"}
    /\ optsMaxDPR = 0
    /\ surfaceVisible = TRUE
    /\ nextId = 8
    /\ lastT = 0
    /\ clock = 0
    /\ rafPending = 1
    /\ destroyed = FALSE
    /\ lastOp = "none"
    /\ lastArgs = [none |-> TRUE]
    /\ gpuLog = <<>>
    /\ calls = 0
    /\ fbAttach = [f \in {<<"fbo", k>> : k \in 1 .. 7} |-> <<"tex", f[2]>>]
    /\ \E env \in FieldEnvironments :
         LET d == pixelRatio(env.ratio, 0)
             w == fieldSize(env.layout[1], d)
             h == fieldSize(env.layout[2], d)
         IN  /\ devicePixelRatio = env.ratio
             /\ dpr = d
             /\ layout = env.layout
             /\ width = w
             /\ height = h
             /\ texel = <<w, h>>
             /\ dye = createDoubleFBO(1, w, h)
             /\ velocity = createDoubleFBO(3, w, h)
             /\ pressure = createDoubleFBO(5, w, h)
             /\ divergence = createFBO(7, w, h)
             /\ \E c \in DyeFields(w, h), v \in VelocityFields(w, h),
                   q \in PressureFields(w, h) :
                   texData = Tabulate([t \in {<<"tex", k>> : k \in 1 .. 7} |->
                                CASE t[2] = 1 -> c
                                  [] t[2] = 2 -> ZeroGrid(w, h, 4)
                                  [] t[2] = 3 -> v
                                  [] t[2] = 4 -> ZeroGrid(w, h, 2)
                                  [] t[2] \in {5, 6} -> q
                                  [] OTHER -> ZeroGrid(w, h, 1)])

NextFields ==
    \/ \E e \in ElapsedMs : Step(e, TRUE)
    \/ \E a \in SplatInputs : Splat(a)

SpecFields == InitFields /\ [][NextFields]_vars

\* The display client on its own, the fluid background not yet initialised.
InitDisplay ==
    /\ Init
    /\ extensions = {"EXT_color_buffer_float", "OES_texture_float_linear"}
    /\ devicePixelRatio = 0
    /\ layout = <<1, 1>>

NextDisplay ==
    \/ \E es \in BOOLEAN : StartSSE(es)
    \/ SseError
    \/ StartPolling
    \/ StartLocalTick
    \/ LocalTick
    \/ \E data \in Payloads : UpdateFromPayload(data)
    \/ \E r \in RemainingValues : TickEvent(r)

SpecDisplay == InitDisplay /\ [][NextDisplay]_vars

\* The fluid theme wrapper on a page: it starts once, then the page calls the
\* hooks it finds installed and the browser the listeners that were added.
InitTheme ==
    /\ Init
    /\ layout = <<1, 1>>

NextTheme ==
    \/ \E core, ctx \in BOOLEAN, sh \in ShaderResults, s \in SeedDraws :
         EnsureAndStart(core, ctx, sh, s)
    \/ \E total \in TotalValues : SetTotalSeconds(total)
    \/ \E remaining \in CountdownValues, r \in RandomUnits : OnNumberChange(remaining, r)
    \/ OnFinaleBurst
    \/ \E x, y \in PointerPositions, r \in RandomUnits : PointerMove(x, y, r)
    \/ WindowResize

SpecTheme == InitTheme /\ [][NextTheme]_vars

----------------------------------------------------------------------------
(* Properties *)

Doubles == <<dye, velocity, pressure>>
Fields == <<dye.read, dye.write, velocity.read, velocity.write,
            pressure.read, pressure.write, divergence>>
Draws(log) == {i \in DOMAIN log : log[i].op = "draw"}
IsPass(e) == e.op \in {"draw", "raf"}
\* The passes of a trace and the requestAnimationFrame calls, in program order.
PassNames(log) ==
    LET s == SelectSeq(log, IsPass)
    IN  [i \in DOMAIN s |-> <<s[i].prog, s[i].field>>]
AllFieldsZero == \A i \in DOMAIN Fields : IsZero(texData[Fields[i].tex])
SomeDataSomewhere == \E t \in DOMAIN texData : ~IsZero(texData[t])

\* C1: after destroy(), a call to splat, splatRandom or resize issues no draw,
\* swaps no buffer roles and reallocates no field (its trace is empty).
C1_DestroyedCallsDoNothing ==
    (destroyed /\ lastOp \in {"splat", "splatRandom", "resize"}) => gpuLog = <<>>

\* C2: once destroy() has returned, no frame callback is pending and no frame
\* step runs.
C2_DestroyUnschedulesFrames ==
    destroyed => (rafPending = 0 /\ lastOp # "step")

\* C3: the read and write roles of dye, velocity and pressure are two distinct
\* textures behind two distinct render targets, and no pass of the last handler
\* sampled the texture its framebuffer writes.
C3_NoPassReadsItsTarget ==
    pc = "live" =>
        /\ \A k \in DOMAIN Doubles :
              /\ Doubles[k].read.tex # Doubles[k].write.tex
              /\ Target(Doubles[k].read.fbo) # Target(Doubles[k].write.fbo)
        /\ \A i \in Draws(gpuLog) : gpuLog[i].target \notin gpuLog[i].reads

\* C3 witness: a frame has run on a dye field a splat had written.
C3_Witness ==
    /\ lastOp = "step"
    /\ Cardinality(Draws(gpuLog)) = 22
    /\ ~IsZero(texData[dye.read.tex])

ExpectedFrame ==
    <<<<"advect", "velocity">>, <<"clear", "velocity">>, <<"divergence", "divergence">>>>
    \o [i \in 1 .. 15 |-> <<"pressure", "pressure">>]
    \o <<<<"gradient", "velocity">>, <<"advect", "dye">>, <<"clear", "dye">>,
         <<"display", "screen">>, <<"step", "none">>>>

\* C4: every executed frame runs advect velocity, dissipate velocity,
\* divergence, the pressure solve, gradient subtraction, advect dye, dissipate
\* dye and present in this order, and requests the next frame after present.
C4_FramePassOrder ==
    lastOp = "step" => PassNames(gpuLog) = ExpectedFrame

\* C4 witness: a frame has run after a splat that applied a force.
C4_Witness ==
    /\ lastOp = "step"
    /\ ~IsZero(texData[velocity.read.tex])
    /\ Len(PassNames(gpuLog)) = 23

\* C5: the dt of both advection passes is min(32 ms, time since the previous
\* frame timestamp), never more than 32 ms, and lastT is the current time.
C5_DtClamped ==
    lastOp = "step" =>
        /\ \A i \in Draws(gpuLog) :
              gpuLog[i].prog = "advect" =>
                 /\ gpuLog[i].dt = (IF clock - lastArgs.prevT < 32
                                    THEN clock - lastArgs.prevT ELSE 32)
                 /\ gpuLog[i].dt <= 32
        /\ Cardinality({i \in Draws(gpuLog) : gpuLog[i].prog = "advect"}) = 2
        /\ lastT = clock
        /\ clock = lastArgs.prevT + lastArgs.elapsed

\* C5 witness: a frame callback fired 5 s after the previous frame.
C5_Witness ==
    /\ lastOp = "step"
    /\ lastArgs.elapsed = 5000
    /\ lastArgs.prevT > 0
    /\ \E i \in Draws(gpuLog) : gpuLog[i].prog = "advect" /\ gpuLog[i].dt = 32

\* C6: a frame callback that fires while the hosting surface is not visible
\* runs no pass and no present, and still requests the next frame.
C6_HiddenFrameSkipsWork ==
    (lastOp = "step" /\ ~surfaceVisible) =>
        (Draws(gpuLog) = {} /\ RafCount(gpuLog) = 1)

RequestedSize ==
    LET c == IF canvasAttached THEN layout ELSE <<0, 0>>
        px(n) == IF (n * dpr) \div 2 < 2 THEN 2 ELSE (n * dpr) \div 2
    IN  <<px(c[1]), px(c[2])>>

FieldsHaveSize(sz) ==
    /\ <<width, height>> = sz
    /\ \A i \in DOMAIN Fields :
          /\ <<Fields[i].w, Fields[i].h>> = sz
          /\ DOMAIN texData[Fields[i].tex] = Cells(sz[1], sz[2])

\* C7 as stated: right after resize() every field has the requested
\* device-pixel size and holds zeros only.
C7_ResizeResetsFields ==
    lastOp = "resize" => (FieldsHaveSize(RequestedSize) /\ AllFieldsZero)

\* C7 amended: right after resize() every field has the requested device-pixel
\* size, and holds zeros only if the call changed the size.
C7_ResizeSizesFields ==
    lastOp = "resize" =>
        /\ FieldsHaveSize(RequestedSize)
        /\ (<<width, height>> # lastArgs.before => AllFieldsZero)

\* C7 witness: a resize() changed the size of fields a splat had written.
C7_Witness ==
    /\ lastOp = "resize"
    /\ <<width, height>> # lastArgs.before
    /\ SomeDataSomewhere
    /\ AllFieldsZero

\* C8: a failed initFluid throws and leaves nothing behind: no canvas in the
\* container, no frame callback requested, no handle.
C8_FailedInitLeavesNothing ==
    pc = "failed" => (thrown # "none" /\ ~canvasAttached /\ rafPending = 0)

RequiredExtensions == {"EXT_color_buffer_float", "OES_texture_float_linear"}

\* C9: initFluid fails, and returns no handle, whenever the context cannot be
\* acquired or a required extension is unavailable.
C9_InitRequiresExtensions ==
    (pc # "start" /\ (glContext = "null" \/ ~(RequiredExtensions \subseteq extensions)))
        => (pc = "failed" /\ thrown # "none")

\* C10: both passes of a splat use the radius max(0.002, radius), radius being
\* 0.04 when the argument is omitted.
C10_SplatRadius ==
    lastOp = "splat" =>
        LET r == IF lastArgs.radius = <<>> THEN 40 ELSE lastArgs.radius[1]
            cr == IF r < 2 THEN 2 ELSE r
        IN  /\ {gpuLog[i].prog : i \in Draws(gpuLog)} = {"splat", "splatVel"}
            /\ \A i \in Draws(gpuLog) : gpuLog[i].radius = cr

\* C10 witness: a splat was called with a radius below the floor.
C10_Witness ==
    /\ lastOp = "splat"
    /\ lastArgs.radius = <<0>>
    /\ \A i \in Draws(gpuLog) : gpuLog[i].radius = 2

\* The dye and velocity contents a splat or a frame started from: after the
\* swap that ends a pass, the texture it sampled is behind the write role.
SplatWeight(p) ==
    LET r == IF lastArgs.radius = <<>> THEN 40 ELSE lastArgs.radius[1]
    IN  Falloff(p, width, height, <<lastArgs.x, lastArgs.y>>, IF r < 2 THEN 2 ELSE r)

\* C11: after splat(x, y, color, radius, force) every dye cell is its previous
\* value plus color times the cell's falloff weight, and every velocity cell is
\* its previous value plus force times that weight, force being (0, 0) when
\* omitted.
C11_SplatAdditive ==
    lastOp = "splat" =>
        LET f == IF lastArgs.force = <<>> THEN <<0, 0>> ELSE lastArgs.force[1]
            newDye == texData[dye.read.tex]
            oldDye == texData[dye.write.tex]
            newVel == texData[velocity.read.tex]
            oldVel == texData[velocity.write.tex]
        IN  \A p \in Cells(width, height) :
               /\ \A c \in 1 .. 3 :
                     newDye[p][c] = oldDye[p][c]
                                      + ((lastArgs.color[c] * SplatWeight(p)) \div 1000)
               /\ \A c \in 1 .. 2 :
                     newVel[p][c] = oldVel[p][c] + ((f[c] * SplatWeight(p)) \div 1000)

\* C11 on contexts that can render to half-float textures.
SplatAdditiveWhenRenderable == Renderable => C11_SplatAdditive

\* The trace of n splat() calls: a dye pass and a dye swap, then a velocity
\* pass and a velocity swap, n times over.
IsSplatTrace(log, n) ==
    /\ Len(log) = 4 * n
    /\ \A k \in 1 .. n :
          /\ log[4 * k - 3].op = "draw" /\ log[4 * k - 3].prog = "splat"
          /\ log[4 * k - 2].op = "swap" /\ log[4 * k - 2].field = "dye"
          /\ log[4 * k - 1].op = "draw" /\ log[4 * k - 1].prog = "splatVel"
          /\ log[4 * k].op = "swap" /\ log[4 * k].field = "velocity"

\* C12: splatRandom(count, options) issues exactly count splat calls, each one
\* dye pass with one dye swap, and none when count is zero or negative.
C12_SplatRandomCount ==
    lastOp = "splatRandom" =>
        IsSplatTrace(gpuLog, IF lastArgs.count > 0 THEN lastArgs.count ELSE 0)

\* C12 witness: splatRandom(2, options) has issued its two splats.
C12_Witness ==
    /\ lastOp = "splatRandom"
    /\ lastArgs.count = 2
    /\ Cardinality({i \in Draws(gpuLog) : gpuLog[i].prog = "splat"}) = 2

\* An option as the caller gave it, d when the caller left it out.
Given(o, d) == IF o = <<>> THEN d ELSE o[1]
Abs(n) == IF n < 0 THEN -n ELSE n

\* C13: every splat issued by splatRandom has its position in the unit square,
\* its radius within [minRadius, maxRadius] as given in the options (defaults
\* 0.015 and 0.06), and a force of magnitude maxForce x forceScale x jitter
\* with jitter between 0.2 and 1.0 (defaults 2.5 and 1.0).
C13_RandomSplatRanges ==
    lastOp = "splatRandom" =>
        LET o == lastArgs.opts
            maxF == Given(o.maxForce, 2500)
            fs == Given(o.forceScale, 1000)
        IN  \A i \in DOMAIN lastArgs.issued :
               LET a == lastArgs.issued[i]
                   mag == Abs(a.force[1][1]) + Abs(a.force[1][2])  \* axis-aligned force
               IN  /\ 0 <= a.x /\ a.x < 1000
                   /\ 0 <= a.y /\ a.y < 1000
                   /\ Given(o.minRadius, 15) <= a.radius[1]
                   /\ a.radius[1] <= Given(o.maxRadius, 60)
                   /\ (maxF * fs * 200) \div 1000000 - 1 <= mag
                   /\ mag <= (maxF * fs) \div 1000 + 1

\* C13 for options that are absent or not zero.
RandomSplatRangesNonZero ==
    (lastOp = "splatRandom" /\ lastArgs.opts # ZeroForceOpts) => C13_RandomSplatRanges

\* C14: after destroy() none of the textures and framebuffers the simulation
\* allocated remains allocated.
C14_DestroyReleasesStorage ==
    destroyed => (DOMAIN texData = {} /\ DOMAIN fbAttach = {})

\* C15: while a countdown is running, the display client calls the installed
\* onNumberChange hook exactly once for each one-second change of the remaining
\* time.
C15_NumberChangePerSecond ==
    hookCalls.onNumberChange = countdown.seconds

\* C16: onFinaleBurst is called exactly once when the countdown reaches zero,
\* and not a second time for the same session.
C16_FinaleBurstOnce ==
    hookCalls.onFinaleBurst = countdown.finales

\* Sum of the colour channels of the first n cells of a dye grid w cells wide.
RECURSIVE DyeTotalTo(_, _, _)
DyeTotalTo(grid, w, n) ==
    IF n = 0 THEN 0
    ELSE LET c == grid[<<(n - 1) % w, (n - 1) \div w>>]
         IN  c[1] + c[2] + c[3] + DyeTotalTo(grid, w, n - 1)
DyeTotal(grid) == DyeTotalTo(grid, width, width * height)

\* C17: with the velocity at zero, a frame takes the total dye to 0.995 times
\* the total it started from, within one unit of rounding per cell and channel,
\* and a splat without force leaves the velocity as it was; so the total at
\* frame k+1 is 0.995 times the total at frame k plus what splats added since.
C17_DyeMassRecurrence ==
    [][/\ (lastOp' = "step" /\ pc = "live" /\ IsZero(texData[velocity.read.tex])) =>
            LET before == DyeTotal(texData[dye.read.tex])
                after  == DyeTotal(texData'[dye'.read.tex])
            IN  /\ IsZero(texData'[velocity'.read.tex])
                /\ Abs(1000 * after - 995 * before) <= 1000 * 3 * width * height
       /\ (lastOp' = "splat" /\ pc = "live" /\ lastArgs'.force = <<>>) =>
            texData'[velocity'.read.tex] = texData[velocity.read.tex]
      ]_vars

\* C17 witness: a frame has faded a dye field of total over 10 on a fluid at rest.
C17_Witness ==
    /\ lastOp = "step"
    /\ IsZero(texData[velocity.read.tex])
    /\ IsZero(texData[velocity.write.tex])
    /\ DyeTotal(texData[dye.read.tex]) > 10000

\* C18: a frame whose divergence field is zero in every cell solves a pressure
\* that is zero in every cell, and its gradient subtraction leaves the velocity
\* as the pass read it (the texture behind velocity.write after the swap).
C18_ZeroDivergenceZeroPressure ==
    (lastOp = "step" /\ IsZero(texData[divergence.tex])) =>
        /\ IsZero(texData[pressure.read.tex])
        /\ texData[velocity.read.tex] = texData[velocity.write.tex]

\* C18 witness: a frame has projected a moving velocity field free of divergence.
C18_Witness ==
    /\ lastOp = "step"
    /\ IsZero(texData[divergence.tex])
    /\ ~IsZero(texData[velocity.read.tex])
    /\ IsZero(texData[pressure.read.tex])

\* The pressure after n Jacobi iterations on div, started from zero.
RECURSIVE JacobiFromZero(_, _)
JacobiFromZero(div, n) ==
    IF n = 0 THEN ZeroGrid(width, height, 1)
    ELSE LET prev == JacobiFromZero(div, n - 1)
         IN  Tabulate([p \in Cells(width, height) |->
                 <<(Fetch(prev, width, height, p[1] - 1, p[2])[1]
                    + Fetch(prev, width, height, p[1] + 1, p[2])[1]
                    + Fetch(prev, width, height, p[1], p[2] - 1)[1]
                    + Fetch(prev, width, height, p[1], p[2] + 1)[1]
                    - div[p][1]) \div 4>>])

\* C19: the pressure a frame solves is what 15 Jacobi iterations make of the
\* frame's divergence starting from zero pressure in every cell: nothing of the
\* pressure the previous frame left is carried into it.
C19_PressureStartsFromZero ==
    lastOp = "step" =>
        texData[pressure.read.tex] = JacobiFromZero(texData[divergence.tex], 15)

\* C19 witness: a second frame in a row has solved a pressure that is not zero.
C19_Witness ==
    /\ lastOp = "step"
    /\ lastArgs.prevT > 0
    /\ ~IsZero(texData[divergence.tex])
    /\ ~IsZero(texData[pressure.read.tex])

JacobiDraws(log) == {i \in Draws(log) : log[i].prog = "pressure"}

\* C20: every executed frame runs exactly 15 Jacobi pressure passes, each one
\* followed by exactly one swap of the pressure roles, whatever dt, the field
\* size and the field contents are.
C20_FifteenJacobiPasses ==
    lastOp = "step" =>
        /\ Cardinality(JacobiDraws(gpuLog)) = 15
        /\ \A i \in JacobiDraws(gpuLog) :
              /\ gpuLog[i + 1].op = "swap" /\ gpuLog[i + 1].field = "pressure"
              /\ gpuLog[i + 2].op # "swap"
              /\ gpuLog[i - 1].op = "swap" /\ gpuLog[i - 2].op # "swap"

\* C20 witness: a frame of a 3 x 2 simulation with dt at its 32 ms clamp has run
\* its Jacobi passes on a velocity that is not zero.
C20_Witness ==
    /\ lastOp = "step"
    /\ lastArgs.elapsed = 5000
    /\ width = 3
    /\ ~IsZero(texData[velocity.read.tex])
    /\ Cardinality(JacobiDraws(gpuLog)) = 15

IsDraw(e) == e.op = "draw"
IsClear(e) == e.op = "clear"

\* C22: in every frame each pass samples what the pass before it on its field
\* has just written: dissipation the advected velocity, divergence the
\* dissipated velocity, every Jacobi pass the pressure of the pass before it
\* (the first one the cleared pressure), gradient subtraction the 15th Jacobi
\* pressure and the dissipated velocity, dye advection the projected velocity,
\* dye dissipation the advected dye and present the dissipated dye.
C22_PassReadsPreviousOutput ==
    lastOp = "step" =>
        LET D == SelectSeq(gpuLog, IsDraw)
            cleared == SelectSeq(gpuLog, IsClear)
        IN  /\ Len(D) = 22
            /\ Len(cleared) = 1
            /\ D[2].reads = {D[1].target}
            /\ D[3].reads = {D[2].target}
            /\ D[4].reads = {cleared[1].target, D[3].target}
            /\ \A k \in 5 .. 18 : D[k].reads = {D[k - 1].target, D[3].target}
            /\ D[19].prog = "gradient"
            /\ D[19].reads = {D[2].target, D[18].target}
            /\ D[20].prog = "advect"
            /\ D[19].target \in D[20].reads
            /\ D[2].target \notin D[20].reads
            /\ D[21].reads = {D[20].target}
            /\ D[22].prog = "display"
            /\ D[22].reads = {D[21].target}
            /\ D[22].reads = {dye.read.tex}

\* C22 witness: a frame has solved a pressure that is not zero and presented a
\* dye that is not zero.
C22_Witness ==
    /\ lastOp = "step"
    /\ ~IsZero(texData[pressure.read.tex])
    /\ ~IsZero(texData[dye.read.tex])

\* C23: whenever a frame step or a splat can start, the dye, velocity, pressure
\* and divergence fields and the texel size agree on one width and height,
\* texel being (1 / width, 1 / height), and a resize allocates all seven
\* buffers with no pass in between.
C23_FieldsAgreeOnSize ==
    pc = "live" =>
        /\ FieldsHaveSize(<<width, height>>)
        /\ texel = <<width, height>>
        /\ width >= 2 /\ height >= 2
        /\ (lastOp = "resize" => Draws(gpuLog) = {} /\ Len(gpuLog) \in {0, 7})

\* C23 witness: a splat has run on fields that a resize had replaced by fields
\* of another size.
C23_Witness ==
    /\ lastOp = "splat"
    /\ nextId = 15
    /\ FieldsHaveSize(<<width, height>>)
    /\ \E t \in DOMAIN texData : DOMAIN texData[t] # Cells(width, height)

\* C24: from a successful init until destroy exactly one frame callback is
\* pending between handlers: a frame step requests exactly one successor, and
\* resize, splat and splatRandom request none.
C24_OneFramePending ==
    (pc = "live" /\ ~destroyed) =>
        /\ rafPending = 1
        /\ lastOp \in {"initFluid", "step"} =>
              Cardinality({i \in DOMAIN gpuLog : gpuLog[i].op = "raf"}) = 1
        /\ lastOp \in {"resize", "splat", "splatRandom"} =>
              \A i \in DOMAIN gpuLog : gpuLog[i].op # "raf"

\* C24 witness: two frames in a row have run and one callback is pending.
C24_Witness ==
    /\ lastOp = "step"
    /\ lastArgs.prevT > 0
    /\ ~destroyed
    /\ rafPending = 1

\* C26: each role's framebuffer has the texture of that same role attached,
\* the two roles of a double buffer are different buffers, and two swaps in a
\* row give back the role assignment they started from.
C26_SwapExchangesHandles ==
    pc = "live" =>
        \A k \in DOMAIN Doubles :
           LET d == Doubles[k]
           IN  /\ fbAttach[d.read.fbo] = d.read.tex
               /\ fbAttach[d.write.fbo] = d.write.tex
               /\ swap(d).read = d.write
               /\ swap(d).write = d.read
               /\ swap(swap(d)) = d

\* C26 witness: after a splat the dye roles are exchanged with respect to
\* their creation, and the read role holds what the splat drew.
C26_Witness ==
    /\ lastOp = "splat"
    /\ dye.read.tex[2] > dye.write.tex[2]
    /\ fbAttach[dye.read.fbo] = dye.read.tex
    /\ ~IsZero(texData[dye.read.tex])

\* C27: a resize() that finds the device-pixel size of the canvas equal to the
\* current field size allocates nothing and leaves the field contents, the
\* role assignment of every double buffer, the texel size and the last-frame
\* timestamp as they were.
C27_SameSizeResizeIsNoOp ==
    [][(lastOp' = "resize" /\ RequestedSize' = <<width, height>>) =>
          /\ gpuLog' = <<>>
          /\ texData' = texData
          /\ fbAttach' = fbAttach
          /\ nextId' = nextId
          /\ <<dye', velocity', pressure', divergence'>> = <<dye, velocity, pressure, divergence>>
          /\ <<width', height', texel'>> = <<width, height, texel>>
          /\ lastT' = lastT
      ]_vars

\* C27 witness: a resize() at an unchanged size has left a dye a splat had
\* written where it was.
C27_Witness ==
    /\ lastOp = "resize"
    /\ <<width, height>> = lastArgs.before
    /\ gpuLog = <<>>
    /\ ~IsZero(texData[dye.read.tex])

\* C28: however often the event stream fails and however startSSE,
\* startPolling and startLocalTick are called, the display client creates at
\* most one 10-second poll timer and at most one 1-second tick timer, and has
\* a tick timer only when window.__tickStarted says so.
C28_AtMostOneTimerEach ==
    /\ timers.poll <= 1
    /\ timers.tick <= 1
    /\ timers.poll = (IF pollingStarted THEN 1 ELSE 0)
    /\ timers.tick = (IF tickStarted THEN 1 ELSE 0)

\* C28 witness: the event stream has failed after startLocalTick had already
\* installed the tick timer, polling runs, and the countdown has ticked.
C28_Witness ==
    /\ timers.sse
    /\ pollingStarted
    /\ timers = [poll |-> 1, tick |-> 1, sse |-> TRUE]
    /\ countdown.seconds >= 2

\* C25: when initFluid throws during begin(), nothing leaves begin() (the
\* failure is logged), sim stays null and none of the wrapper's hooks or
\* listeners is installed, so nothing the page or the browser can call later
\* invokes a method on a null simulation; no hook call raises, and a hook is
\* only ever installed over a simulation that exists.
C25_FailedBeginIsHarmless ==
    /\ ~theme.raised
    /\ ~theme.thrown
    /\ pc = "failed" /\ theme.phase # "loaded" =>
          /\ theme.phase = "failed"
          /\ theme.warned
          /\ theme.sim = "null"
          /\ theme.hooks = {}
          /\ theme.simCalls = <<>>
    /\ theme.sim = "null" => theme.hooks = {} /\ theme.simCalls = <<>>
C25_Witness ==
    /\ pc = "failed"
    /\ thrown = "Shader compile error"
    /\ lastOp = "initFluid"
    /\ theme.phase = "failed"
    /\ theme.warned
    /\ theme.sim = "null"
    /\ theme.hooks = {}

====
